---- MODULE Spec2Model ----
(***************************************************************************)
(* Model of gui/qt/emuthread.cpp (CEmu): the coordination layer between    *)
(* the emulation (computation) thread and the GUI (controller) thread.     *)
(*                                                                         *)
(*   - writeConsoleBuffer: ring buffer guarded by two counting semaphores  *)
(*   - reset/debug/send/receive/save + doStuff: command flags drained at   *)
(*     the checkpoint, with the mutex/condition-variable receive gate      *)
(*   - throttleTimerWait / setActualSpeed: pacing and speed telemetry      *)
(*   - stop / load: thread lifecycle                                       *)
(*                                                                         *)
(* The computation thread has one program counter, pc; "loop" is the       *)
(* emulation loop between two calls into this file.  Labels wNN, dNN, tNN  *)
(* name the source line the thread is about to execute.                    *)
(***************************************************************************)
EXTENDS Integers, Sequences, FiniteSets, TLC

\* ---------------------------------------------------------------- bounds
CONSOLE_BUFFER_SIZE == 4
MaxCalls == 3
MaxRequests == 4
MaxTime == 5
MaxSpeedEvents == 3
TicksPerUnit == 2

\* longest message: one byte more than the ring holds
MaxLen == CONSOLE_BUFFER_SIZE + 1

\* ------------------------------------------------------------- variables
VARIABLES
    pc,                    \* computation thread: position
    consoleBuffer,         \* char consoleBuffer[CONSOLE_BUFFER_SIZE]
    consoleWritePosition,
    consoleWriteSemaphore, \* permits: bytes free to write
    consoleReadSemaphore,  \* permits: bytes ready to read
    msg,                   \* the bytes format/args expand to (or FmtError)
    dest,
    available, remaining, space, size, bufferPosition,
    buffer,                \* "none", "ring" (consoleBuffer) or "heap"
    heap,                  \* contents of new char[size + 1]
    consoleStrEvents,      \* destinations of the consoleStr signals of the current call
    \* consumer (GUI side of the console channel)
    rpc, consoleReadPosition, readCount, observed,
    \* history
    submitted,             \* number of bytes handed to writeConsoleBuffer so far
    calls,                 \* number of writeConsoleBuffer calls so far
    wrapped,               \* number of times consoleWritePosition wrapped to 0
    chunks,                \* of the current call: [at, acq, rel] per acquire
    \* controller (GUI) thread
    cpc,                   \* position: "idle" or gNN inside a handler
    requests,              \* number of controller calls made so far
    \* command flags and their payloads
    doReset, enterSave, enterSendState, enterReceiveState, enterDebugger,
    inDebugger,
    varsList,              \* QStringList vars
    sendLoc, savePath, saveImage,
    mutex,                 \* std::mutex: "free", "emu" or "gui"
    cpuEvents,             \* cpu.events has EVENT_RESET
    fileNum, fileIdx,      \* locals of sendFiles (fileNum, i)
    \* parameters of the handler call in progress / of the latest call
    sendReq,               \* [list, loc] of the latest send()
    saveReq,               \* [image, path] of the latest save()
    debugState,            \* state of the latest debug()
    debugPrior,            \* enterDebugger just before the latest debug()
    signalled,             \* unlock() notified since the latest receive()
    \* signals and collaborator calls
    sentFileEvents,        \* sentFile(name, status) of the current batch
    savedEvents,           \* saved(success) emitted so far
    receiveReadyEvents,    \* number of receiveReady() emitted
    openCalls, closeCalls, clearTempCalls,
    answered,              \* unlock() notified since the latest receiveReady
    owed,                  \* requests made that no test of line 146, 151, 157,
                           \* 162 or 169 has found set since
    performed,             \* actions the checkpoint in progress has completed
    \* throttle
    speed, actualSpeed, throttleOn,
    lastTime,              \* in ticks
    now,                   \* std::chrono::steady_clock::now()
    controlOff,            \* control.off
    interval, cur_time, next_time,
    speedEvents,           \* values of the actualSpeedChanged signals
    quiet,                 \* line 197 ran and speed has been 0 ever since
    quietFrom,             \* Len(speedEvents) after that line 197
    suppressed,            \* control.off was set at that line 197
    aheadCalls,            \* consecutive calls that took the branch of line 208
                           \* at the present speed
    aheadBase,             \* lastTime before the first of them
    \* lifecycle
    running,               \* QThread::isRunning()
    exiting, cpuNext,      \* exiting, cpu.next # 0
    lcdCallback,           \* lcd_gui_callback # NULL
    terminateRequested,    \* terminate() was called on the running thread
    terminateCalls,        \* terminate() calls of the stop() in progress
    stopResult,            \* <<r>> once stop() has returned r, <<>> before
    stopCaller,            \* "load" when stop() was called by load()
    firstWait, secondWait, \* how the waits of that stop() ended
    loadRestore, loadResult,
    emuLoadStatus,         \* what emu_load returned in the latest load()
    emuLoadRunning,        \* isRunning() when emu_load was last invoked
    stoppedEvents          \* number of stopped() emitted

consoleVars == <<consoleBuffer, consoleWritePosition, consoleWriteSemaphore,
                 consoleReadSemaphore, msg, dest, available, remaining, space,
                 size, bufferPosition, buffer, heap, consoleStrEvents,
                 rpc, consoleReadPosition, readCount, observed,
                 submitted, calls, wrapped, chunks>>

cmdVars == <<doReset, enterSave, enterSendState, enterReceiveState,
             enterDebugger, inDebugger, varsList, sendLoc, savePath, saveImage,
             mutex, cpuEvents, fileNum, fileIdx, sendReq, saveReq, debugState,
             debugPrior, signalled, sentFileEvents, savedEvents,
             receiveReadyEvents, openCalls, closeCalls, clearTempCalls,
             performed, answered, owed>>

ctlVars == <<cpc, requests>>

throttleVars == <<speed, actualSpeed, throttleOn, lastTime, now, controlOff,
                  interval, cur_time, next_time, speedEvents, quiet,
                  quietFrom, suppressed, aheadCalls, aheadBase>>

lifeVars == <<running, exiting, cpuNext, lcdCallback, terminateRequested,
              terminateCalls, stopResult, stopCaller, firstWait, secondWait,
              loadRestore, loadResult, emuLoadStatus, emuLoadRunning,
              stoppedEvents>>

vars == <<pc, consoleVars, ctlVars, cmdVars, throttleVars, lifeVars>>

\* ------------------------------------------------------------- constants
CONSOLE_NORM == 0
CONSOLE_ERR == 1
NUL == 0
FmtError == <<-1>>         \* a format vsnprintf rejects (returns a negative value)

Index == 0 .. CONSOLE_BUFFER_SIZE - 1

Min(a, b) == IF a < b THEN a ELSE b

\* The k bytes following the bytes already submitted: byte i of the whole
\* output stream carries the value i, so loss, duplication and reordering
\* are all visible in the values.
Message(from, len) == [i \in 1 .. len |-> from + i]

\* ----------------------------------------------------------- vsnprintf
\* Return value of vsnprintf(..., format, args): the full formatted length,
\* whatever the size of the destination; negative on an encoding error.
FormattedSize(m) == IF m = FmtError THEN -1 ELSE Len(m)

\* vsnprintf(consoleBuffer + at, n, ...): at most n - 1 characters and a
\* terminating NUL are stored; nothing is stored when n = 0 or on error.
VsnprintfRing(buf, at, n, m) ==
    IF n <= 0 \/ m = FmtError THEN buf
    ELSE LET k == Min(Len(m), n - 1)
         IN [i \in Index |->
                IF i >= at /\ i < at + k THEN m[i - at + 1]
                ELSE IF i = at + k THEN NUL
                ELSE buf[i]]

\* vsnprintf(new char[size + 1], size + 1, ...)
VsnprintfHeap(n, m) ==
    [i \in 1 .. n |-> IF i <= Len(m) /\ i <= n - 1 THEN m[i] ELSE NUL]

\* ---------------------------------------------------- writeConsoleBuffer
SpaceAllRemaining(a, r) == r

\* line 67
Space(a, r) == IF a < r THEN a ELSE r

\* line 79: the ring itself is the scratch area when size < available - remaining
UseRing(sz, a, r) == sz < a - r

\* buffer[from + j], j = 0 .. n-1, read from the scratch area
Scratch(j) == IF buffer = "ring" THEN consoleBuffer[j] ELSE heap[j + 1]

CopyNoAdvance(at, from, n) ==
    [i \in Index |->
        IF i >= at /\ i < at + n THEN Scratch(i - at) ELSE consoleBuffer[i]]

\* lines 83, 93: memcpy/memmove(consoleBuffer + at, buffer + from, n)
Copy(at, from, n) ==
    [i \in Index |->
        IF i >= at /\ i < at + n THEN Scratch(from + (i - at)) ELSE consoleBuffer[i]]

\* lines 62-67
WriteCall ==
    /\ pc = "loop"
    /\ calls < MaxCalls
    /\ \E d \in {CONSOLE_NORM, CONSOLE_ERR} :
       \E m \in {Message(submitted, l) : l \in 0 .. MaxLen} \cup {FmtError} :
          /\ dest' = d
          /\ msg' = m
          /\ submitted' = IF m = FmtError THEN submitted ELSE submitted + Len(m)
    /\ calls' = calls + 1
    /\ available' = consoleWriteSemaphore
    /\ remaining' = CONSOLE_BUFFER_SIZE - consoleWritePosition
    /\ space' = Space(consoleWriteSemaphore, CONSOLE_BUFFER_SIZE - consoleWritePosition)
    /\ consoleStrEvents' = <<>>
    /\ chunks' = <<>>
    /\ pc' = "w68"
    /\ UNCHANGED <<consoleBuffer, consoleWritePosition,
                   consoleWriteSemaphore, consoleReadSemaphore, size,
                   bufferPosition, buffer, heap, rpc, consoleReadPosition,
                   readCount, observed, wrapped, ctlVars, cmdVars,
                   throttleVars, lifeVars>>

\* lines 68-69
WriteFormat ==
    /\ pc = "w68"
    /\ size' = FormattedSize(msg)
    /\ consoleBuffer' = VsnprintfRing(consoleBuffer, consoleWritePosition, space, msg)
    /\ pc' = "w70"
    /\ UNCHANGED <<consoleWritePosition, consoleWriteSemaphore,
                   consoleReadSemaphore, msg, dest, available, remaining,
                   space, bufferPosition, buffer, heap, consoleStrEvents,
                   rpc, consoleReadPosition, readCount, observed,
                   submitted, calls, wrapped, chunks, ctlVars, cmdVars,
                   throttleVars, lifeVars>>

CommitsNonNegative(sz) == sz >= 0

\* line 71: inside the fitting branch only a positive size is committed
Commits(sz) == sz > 0

\* lines 70-71 and 77-80
WriteBranch ==
    /\ pc = "w70"
    /\ IF size < space
       THEN /\ pc' = IF Commits(size) THEN "w72" ELSE "loop"
            /\ UNCHANGED <<consoleBuffer, bufferPosition, buffer, heap>>
       ELSE /\ bufferPosition' = 0
            /\ IF UseRing(size, available, remaining)
               THEN /\ buffer' = "ring"
                    /\ consoleBuffer' = VsnprintfRing(consoleBuffer, 0, size + 1, msg)
                    /\ heap' = <<>>
               ELSE /\ buffer' = "heap"
                    /\ heap' = VsnprintfHeap(size + 1, msg)
                    /\ UNCHANGED consoleBuffer
            /\ pc' = "w81"
    /\ UNCHANGED <<consoleWritePosition, consoleWriteSemaphore,
                   consoleReadSemaphore, msg, dest, available, remaining,
                   space, size, consoleStrEvents, rpc, consoleReadPosition,
                   readCount, observed, submitted, calls, wrapped, chunks,
                   ctlVars, cmdVars, throttleVars, lifeVars>>

\* lines 81, 91, 99-101: loop test, tail test, release of the scratch buffer
WriteLoopTest ==
    /\ pc = "w81"
    /\ IF size >= remaining
       THEN pc' = "w82" /\ UNCHANGED <<buffer, heap>>
       ELSE IF size # 0
            THEN pc' = "w92" /\ UNCHANGED <<buffer, heap>>
            ELSE pc' = "loop" /\ buffer' = "none" /\ heap' = <<>>
    /\ UNCHANGED <<consoleBuffer, consoleWritePosition,
                   consoleWriteSemaphore, consoleReadSemaphore, msg, dest,
                   available, remaining, space, size, bufferPosition,
                   consoleStrEvents, rpc, consoleReadPosition, readCount,
                   observed, submitted, calls, wrapped, chunks, ctlVars,
                   cmdVars, throttleVars, lifeVars>>

WantedSize == size

\* The number of permits the pending acquire asks for (lines 72, 82, 92).
Wanted == IF pc = "w82" THEN remaining ELSE size

\* lines 72, 82, 92: QSemaphore::acquire(n) returns once n permits are there
WriteAcquire ==
    /\ pc \in {"w72", "w82", "w92"}
    /\ consoleWriteSemaphore >= Wanted
    /\ consoleWriteSemaphore' = consoleWriteSemaphore - Wanted
    /\ chunks' = Append(chunks,
           [at |-> consoleWritePosition, acq |-> Wanted, rel |-> 0])
    /\ pc' = CASE pc = "w72" -> "w73" [] pc = "w82" -> "w83" [] pc = "w92" -> "w93"
    /\ UNCHANGED <<consoleBuffer, consoleWritePosition,
                   consoleReadSemaphore, msg, dest, available, remaining,
                   space, size, bufferPosition, buffer, heap,
                   consoleStrEvents, rpc, consoleReadPosition, readCount,
                   observed, submitted, calls, wrapped, ctlVars, cmdVars,
                   throttleVars, lifeVars>>

\* lines 74, 87, 95: the chunk acquired last gets n read permits released
Released(n) == [chunks EXCEPT ![Len(chunks)].rel = n]

\* lines 73-75: the message was formatted in place
WriteCommitDirect ==
    /\ pc = "w73"
    /\ consoleWritePosition' = consoleWritePosition + size
    /\ consoleReadSemaphore' = consoleReadSemaphore + size
    /\ consoleStrEvents' = Append(consoleStrEvents, dest)
    /\ chunks' = Released(size)
    /\ pc' = "loop"
    /\ UNCHANGED <<consoleBuffer, consoleWriteSemaphore, msg, dest,
                   available, remaining, space, size, bufferPosition,
                   buffer, heap, rpc, consoleReadPosition, readCount,
                   observed, submitted, calls, wrapped, ctlVars, cmdVars,
                   throttleVars, lifeVars>>

\* lines 83-89: one chunk up to the end of the ring
WriteCommitChunk ==
    /\ pc = "w83"
    /\ consoleBuffer' = Copy(consoleWritePosition, bufferPosition, remaining)
    /\ bufferPosition' = bufferPosition + remaining
    /\ size' = size - remaining
    /\ consoleWritePosition' = 0
    /\ consoleReadSemaphore' = consoleReadSemaphore + remaining
    /\ chunks' = Released(remaining)
    /\ remaining' = CONSOLE_BUFFER_SIZE
    /\ consoleStrEvents' = Append(consoleStrEvents, dest)
    /\ wrapped' = Min(wrapped + 1, 2)
    /\ pc' = "w81"
    /\ UNCHANGED <<consoleWriteSemaphore, msg, dest, available, space,
                   buffer, heap, rpc, consoleReadPosition, readCount,
                   observed, submitted, calls, ctlVars, cmdVars,
                   throttleVars, lifeVars>>

\* lines 93-96 and 99-101: the tail of the message
WriteCommitTail ==
    /\ pc = "w93"
    /\ consoleBuffer' = Copy(consoleWritePosition, bufferPosition, size)
    /\ consoleWritePosition' = consoleWritePosition + size
    /\ consoleReadSemaphore' = consoleReadSemaphore + size
    /\ consoleStrEvents' = Append(consoleStrEvents, dest)
    /\ chunks' = Released(size)
    /\ buffer' = "none"
    /\ heap' = <<>>
    /\ pc' = "loop"
    /\ UNCHANGED <<consoleWriteSemaphore, msg, dest, available, remaining,
                   space, size, bufferPosition, rpc, consoleReadPosition,
                   readCount, observed, submitted, calls, wrapped, ctlVars,
                   cmdVars, throttleVars, lifeVars>>

\* ------------------------------------------------------------- consumer
\* The reader of the console channel: acquires n of the readable permits,
\* reads n bytes from its own cursor, gives n write permits back.
ReadAcquire ==
    /\ rpc = "idle"
    /\ \E n \in 1 .. consoleReadSemaphore :
          /\ readCount' = n
          /\ consoleReadSemaphore' = consoleReadSemaphore - n
    /\ rpc' = "read"
    /\ UNCHANGED <<consoleBuffer, consoleWritePosition,
                   consoleWriteSemaphore, msg, dest, available, remaining,
                   space, size, bufferPosition, buffer, heap,
                   consoleStrEvents, consoleReadPosition, observed,
                   submitted, calls, wrapped, chunks, ctlVars, cmdVars,
                   throttleVars, lifeVars, pc>>

ReadRelease ==
    /\ rpc = "read"
    /\ observed' = observed \o
          [j \in 1 .. readCount |->
              consoleBuffer[(consoleReadPosition + j - 1) % CONSOLE_BUFFER_SIZE]]
    /\ consoleReadPosition' = (consoleReadPosition + readCount) % CONSOLE_BUFFER_SIZE
    /\ consoleWriteSemaphore' = consoleWriteSemaphore + readCount
    /\ readCount' = 0
    /\ rpc' = "idle"
    /\ UNCHANGED <<consoleBuffer, consoleWritePosition,
                   consoleReadSemaphore, msg, dest, available, remaining,
                   space, size, bufferPosition, buffer, heap,
                   consoleStrEvents, submitted, calls, wrapped, chunks,
                   ctlVars, cmdVars, throttleVars, lifeVars, pc>>

\* ---------------------------------------------------------------- doStuff
LINK_GOOD == "LINK_GOOD"
LinkStatus == {LINK_GOOD, "LINK_ERR"}    \* what sendVariableLink may return
EmptyName == <<>>                        \* QString()
Garbage == "garbage"                     \* what an out-of-range vars.at(i) may yield

FileLists == {<<>>, <<1>>, <<2, 1>>}     \* lists given to send()
Locations == {1}                         \* location given to send(); sendLoc starts as 0
Paths == {1}                             \* path given to save(); savePath starts as 0

Bump(n) == n + 1

PendingAlways(flag) == TRUE

\* lines 146, 151, 157, 162, 169: if (flag)
Pending(flag) == flag

\* lines 146-172: the actions of one checkpoint, in source order
CheckpointOrder == <<"reset", "save", "send", "receive", "debug">>

\* line 143
DoStuffCall ==
    /\ pc = "loop"
    /\ cur_time' = now
    /\ pc' = "d144"
    /\ UNCHANGED <<consoleVars, ctlVars, cmdVars, speed, actualSpeed,
                   throttleOn, lastTime, now, controlOff, interval,
                   next_time, speedEvents, quiet, quietFrom, suppressed,
                   aheadCalls, aheadBase, lifeVars>>

\* line 144
DoStuffAdjust ==
    /\ pc = "d144"
    /\ lastTime' = lastTime + (now - cur_time)
    /\ pc' = "d146"
    /\ UNCHANGED <<consoleVars, ctlVars, cmdVars, speed, actualSpeed,
                   throttleOn, now, controlOff, interval, cur_time,
                   next_time, speedEvents, quiet, quietFrom, suppressed,
                   aheadCalls, aheadBase, lifeVars>>

\* line 146: if (doReset)
DoTestReset ==
    /\ pc = "d146"
    /\ owed' = IF doReset THEN owed \ {"reset"} ELSE owed
    /\ pc' = IF Pending(doReset) THEN "d147" ELSE "d151"
    /\ UNCHANGED <<consoleVars, ctlVars, doReset, enterSave,
                   enterSendState, enterReceiveState, enterDebugger,
                   inDebugger, varsList, sendLoc, savePath, saveImage,
                   mutex, cpuEvents, fileNum, fileIdx, sendReq, saveReq,
                   debugState, debugPrior, signalled, sentFileEvents,
                   savedEvents, receiveReadyEvents, openCalls, closeCalls,
                   clearTempCalls, performed, answered, throttleVars,
                   lifeVars>>

\* line 147
DoResetEvent ==
    /\ pc = "d147"
    /\ cpuEvents' = TRUE
    /\ performed' = Append(performed, "reset")
    /\ pc' = "d148"
    /\ UNCHANGED <<consoleVars, ctlVars, doReset, enterSave,
                   enterSendState, enterReceiveState, enterDebugger,
                   inDebugger, varsList, sendLoc, savePath, saveImage,
                   mutex, fileNum, fileIdx, sendReq, saveReq, debugState,
                   debugPrior, signalled, sentFileEvents, savedEvents,
                   receiveReadyEvents, openCalls, closeCalls,
                   clearTempCalls, answered, owed, throttleVars, lifeVars>>

\* line 148
DoResetClear ==
    /\ pc = "d148"
    /\ doReset' = FALSE
    /\ pc' = "d151"
    /\ UNCHANGED <<consoleVars, ctlVars, enterSave, enterSendState,
                   enterReceiveState, enterDebugger, inDebugger, varsList,
                   sendLoc, savePath, saveImage, mutex, cpuEvents, fileNum,
                   fileIdx, sendReq, saveReq, debugState, debugPrior,
                   signalled, sentFileEvents, savedEvents,
                   receiveReadyEvents, openCalls, closeCalls,
                   clearTempCalls, performed, answered, owed, throttleVars,
                   lifeVars>>

\* line 151: if (enterSave)
DoTestSave ==
    /\ pc = "d151"
    /\ owed' = IF enterSave THEN owed \ {"save"} ELSE owed
    /\ pc' = IF Pending(enterSave) THEN "d152" ELSE "d157"
    /\ UNCHANGED <<consoleVars, ctlVars, doReset, enterSave,
                   enterSendState, enterReceiveState, enterDebugger,
                   inDebugger, varsList, sendLoc, savePath, saveImage,
                   mutex, cpuEvents, fileNum, fileIdx, sendReq, saveReq,
                   debugState, debugPrior, signalled, sentFileEvents,
                   savedEvents, receiveReadyEvents, openCalls, closeCalls,
                   clearTempCalls, performed, answered, throttleVars,
                   lifeVars>>

\* lines 152-153: emu_save(saveImage, savePath) and emit saved(success)
DoSave ==
    /\ pc = "d152"
    /\ \E success \in BOOLEAN :
          savedEvents' = Append(savedEvents,
              [success |-> success, image |-> saveImage, path |-> savePath])
    /\ performed' = Append(performed, "save")
    /\ pc' = "d154"
    /\ UNCHANGED <<consoleVars, ctlVars, doReset, enterSave,
                   enterSendState, enterReceiveState, enterDebugger,
                   inDebugger, varsList, sendLoc, savePath, saveImage,
                   mutex, cpuEvents, fileNum, fileIdx, sendReq, saveReq,
                   debugState, debugPrior, signalled, sentFileEvents,
                   receiveReadyEvents, openCalls, closeCalls,
                   clearTempCalls, answered, owed, throttleVars, lifeVars>>

\* line 154
DoSaveClear ==
    /\ pc = "d154"
    /\ enterSave' = FALSE
    /\ pc' = "d157"
    /\ UNCHANGED <<consoleVars, ctlVars, doReset, enterSendState,
                   enterReceiveState, enterDebugger, inDebugger, varsList,
                   sendLoc, savePath, saveImage, mutex, cpuEvents, fileNum,
                   fileIdx, sendReq, saveReq, debugState, debugPrior,
                   signalled, sentFileEvents, savedEvents,
                   receiveReadyEvents, openCalls, closeCalls,
                   clearTempCalls, performed, answered, owed, throttleVars,
                   lifeVars>>

\* line 157: if (enterSendState)
DoTestSend ==
    /\ pc = "d157"
    /\ owed' = IF enterSendState THEN owed \ {"send"} ELSE owed
    /\ pc' = IF Pending(enterSendState) THEN "d176" ELSE "d162"
    /\ UNCHANGED <<consoleVars, ctlVars, doReset, enterSave,
                   enterSendState, enterReceiveState, enterDebugger,
                   inDebugger, varsList, sendLoc, savePath, saveImage,
                   mutex, cpuEvents, fileNum, fileIdx, sendReq, saveReq,
                   debugState, debugPrior, signalled, sentFileEvents,
                   savedEvents, receiveReadyEvents, openCalls, closeCalls,
                   clearTempCalls, performed, answered, throttleVars,
                   lifeVars>>

\* line 176
SendFilesBegin ==
    /\ pc = "d176"
    /\ fileNum' = Len(varsList)
    /\ fileIdx' = 0
    /\ sentFileEvents' = <<>>
    /\ pc' = "d178"
    /\ UNCHANGED <<consoleVars, ctlVars, doReset, enterSave,
                   enterSendState, enterReceiveState, enterDebugger,
                   inDebugger, varsList, sendLoc, savePath, saveImage,
                   mutex, cpuEvents, sendReq, saveReq, debugState,
                   debugPrior, signalled, savedEvents, receiveReadyEvents,
                   openCalls, closeCalls, clearTempCalls, performed,
                   answered, owed, throttleVars, lifeVars>>

\* line 178: if (i < fileNum)
SendFilesTest ==
    /\ pc = "d178"
    /\ pc' = IF fileIdx < fileNum THEN "d179" ELSE "d183"
    /\ UNCHANGED <<consoleVars, ctlVars, cmdVars, throttleVars, lifeVars>>

\* lines 179-180: vars.at(i), sendVariableLink, emit sentFile; i++
\* vars.at(i) past the end of the list the controller has put in place since
\* line 176 is undefined: it aborts or yields some value.
SendFilesItem ==
    /\ pc = "d179"
    /\ IF fileIdx < Len(varsList)
       THEN /\ \E st \in LinkStatus :
                 sentFileEvents' = Append(sentFileEvents,
                     [name |-> varsList[fileIdx + 1], status |-> st])
            /\ fileIdx' = fileIdx + 1
            /\ pc' = "d178"
       ELSE \/ /\ pc' = "crashed"
               /\ UNCHANGED <<sentFileEvents, fileIdx>>
            \/ /\ \E st \in LinkStatus :
                    sentFileEvents' = Append(sentFileEvents,
                        [name |-> Garbage, status |-> st])
               /\ fileIdx' = fileIdx + 1
               /\ pc' = "d178"
    /\ UNCHANGED <<consoleVars, ctlVars, doReset, enterSave,
                   enterSendState, enterReceiveState, enterDebugger,
                   inDebugger, varsList, sendLoc, savePath, saveImage,
                   mutex, cpuEvents, fileNum, sendReq, saveReq, debugState,
                   debugPrior, signalled, savedEvents, receiveReadyEvents,
                   openCalls, closeCalls, clearTempCalls, performed,
                   answered, owed, throttleVars, lifeVars>>

\* line 183
SendFilesDone ==
    /\ pc = "d183"
    /\ sentFileEvents' = Append(sentFileEvents,
           [name |-> EmptyName, status |-> LINK_GOOD])
    /\ performed' = Append(performed, "send")
    /\ pc' = "d159"
    /\ UNCHANGED <<consoleVars, ctlVars, doReset, enterSave,
                   enterSendState, enterReceiveState, enterDebugger,
                   inDebugger, varsList, sendLoc, savePath, saveImage,
                   mutex, cpuEvents, fileNum, fileIdx, sendReq, saveReq,
                   debugState, debugPrior, signalled, savedEvents,
                   receiveReadyEvents, openCalls, closeCalls,
                   clearTempCalls, answered, owed, throttleVars, lifeVars>>

\* line 159
DoSendClear ==
    /\ pc = "d159"
    /\ enterSendState' = FALSE
    /\ pc' = "d162"
    /\ UNCHANGED <<consoleVars, ctlVars, doReset, enterSave,
                   enterReceiveState, enterDebugger, inDebugger, varsList,
                   sendLoc, savePath, saveImage, mutex, cpuEvents, fileNum,
                   fileIdx, sendReq, saveReq, debugState, debugPrior,
                   signalled, sentFileEvents, savedEvents,
                   receiveReadyEvents, openCalls, closeCalls,
                   clearTempCalls, performed, answered, owed, throttleVars,
                   lifeVars>>

\* line 162: if (enterReceiveState)
DoTestReceive ==
    /\ pc = "d162"
    /\ owed' = IF enterReceiveState THEN owed \ {"receive"} ELSE owed
    /\ pc' = IF Pending(enterReceiveState) THEN "d163" ELSE "d169"
    /\ UNCHANGED <<consoleVars, ctlVars, doReset, enterSave,
                   enterSendState, enterReceiveState, enterDebugger,
                   inDebugger, varsList, sendLoc, savePath, saveImage,
                   mutex, cpuEvents, fileNum, fileIdx, sendReq, saveReq,
                   debugState, debugPrior, signalled, sentFileEvents,
                   savedEvents, receiveReadyEvents, openCalls, closeCalls,
                   clearTempCalls, performed, answered, throttleVars,
                   lifeVars>>

LockSkipped(owner) == "free"

\* line 163: the constructor of std::unique_lock locks the mutex
LockTaken(owner) == owner

\* line 163: std::unique_lock<std::mutex> lock(mutex)
GateLock ==
    /\ pc = "d163"
    /\ mutex = "free"
    /\ mutex' = LockTaken("emu")
    /\ pc' = "d164"
    /\ UNCHANGED <<consoleVars, ctlVars, doReset, enterSave,
                   enterSendState, enterReceiveState, enterDebugger,
                   inDebugger, varsList, sendLoc, savePath, saveImage,
                   cpuEvents, fileNum, fileIdx, sendReq, saveReq,
                   debugState, debugPrior, signalled, sentFileEvents,
                   savedEvents, receiveReadyEvents, openCalls, closeCalls,
                   clearTempCalls, performed, answered, owed, throttleVars,
                   lifeVars>>

\* line 164
GateReady ==
    /\ pc = "d164"
    /\ receiveReadyEvents' = Bump(receiveReadyEvents)
    /\ answered' = FALSE
    /\ pc' = "d165"
    /\ UNCHANGED <<consoleVars, ctlVars, doReset, enterSave,
                   enterSendState, enterReceiveState, enterDebugger,
                   inDebugger, varsList, sendLoc, savePath, saveImage,
                   mutex, cpuEvents, fileNum, fileIdx, sendReq, saveReq,
                   debugState, debugPrior, signalled, sentFileEvents,
                   savedEvents, openCalls, closeCalls, clearTempCalls,
                   performed, owed, throttleVars, lifeVars>>

\* line 165: cv.wait(lock) releases the mutex and blocks
GateWait ==
    /\ pc = "d165"
    /\ mutex' = "free"
    /\ pc' = "d165w"
    /\ UNCHANGED <<consoleVars, ctlVars, doReset, enterSave,
                   enterSendState, enterReceiveState, enterDebugger,
                   inDebugger, varsList, sendLoc, savePath, saveImage,
                   cpuEvents, fileNum, fileIdx, sendReq, saveReq,
                   debugState, debugPrior, signalled, sentFileEvents,
                   savedEvents, receiveReadyEvents, openCalls, closeCalls,
                   clearTempCalls, performed, answered, owed, throttleVars,
                   lifeVars>>

\* line 165: std::condition_variable::wait may return without a notification
GateSpuriousWakeup ==
    /\ pc = "d165w"
    /\ pc' = "d165r"
    /\ UNCHANGED <<consoleVars, ctlVars, cmdVars, throttleVars, lifeVars>>

\* line 165: cv.wait takes the mutex again before it returns
GateReacquire ==
    /\ pc = "d165r"
    /\ mutex = "free"
    /\ mutex' = "emu"
    /\ performed' = Append(performed, "receive")
    /\ pc' = "d166"
    /\ UNCHANGED <<consoleVars, ctlVars, doReset, enterSave,
                   enterSendState, enterReceiveState, enterDebugger,
                   inDebugger, varsList, sendLoc, savePath, saveImage,
                   cpuEvents, fileNum, fileIdx, sendReq, saveReq,
                   debugState, debugPrior, signalled, sentFileEvents,
                   savedEvents, receiveReadyEvents, openCalls, closeCalls,
                   clearTempCalls, answered, owed, throttleVars, lifeVars>>

\* lines 166-167: clear the flag, lock goes out of scope
GateLeave ==
    /\ pc = "d166"
    /\ enterReceiveState' = FALSE
    /\ mutex' = "free"
    /\ pc' = "d169"
    /\ UNCHANGED <<consoleVars, ctlVars, doReset, enterSave,
                   enterSendState, enterDebugger, inDebugger, varsList,
                   sendLoc, savePath, saveImage, cpuEvents, fileNum,
                   fileIdx, sendReq, saveReq, debugState, debugPrior,
                   signalled, sentFileEvents, savedEvents,
                   receiveReadyEvents, openCalls, closeCalls,
                   clearTempCalls, performed, answered, owed, throttleVars,
                   lifeVars>>

\* line 169: if (enterDebugger)
DoTestDebugger ==
    /\ pc = "d169"
    /\ owed' = IF enterDebugger THEN owed \ {"debug"} ELSE owed
    /\ pc' = IF Pending(enterDebugger) THEN "d170" ELSE "loop"
    /\ performed' = IF Pending(enterDebugger) THEN performed ELSE <<>>
    /\ UNCHANGED <<consoleVars, ctlVars, doReset, enterSave,
                   enterSendState, enterReceiveState, enterDebugger,
                   inDebugger, varsList, sendLoc, savePath, saveImage,
                   mutex, cpuEvents, fileNum, fileIdx, sendReq, saveReq,
                   debugState, debugPrior, signalled, sentFileEvents,
                   savedEvents, receiveReadyEvents, openCalls, closeCalls,
                   clearTempCalls, answered, throttleVars, lifeVars>>

\* line 170: open_debugger(DBG_USER, 0) enters the debugger ...
OpenDebugger ==
    /\ pc = "d170"
    /\ inDebugger' = TRUE
    /\ openCalls' = Bump(openCalls)
    /\ pc' = "d170w"
    /\ UNCHANGED <<consoleVars, ctlVars, doReset, enterSave,
                   enterSendState, enterReceiveState, enterDebugger,
                   varsList, sendLoc, savePath, saveImage, mutex,
                   cpuEvents, fileNum, fileIdx, sendReq, saveReq,
                   debugState, debugPrior, signalled, sentFileEvents,
                   savedEvents, receiveReadyEvents, closeCalls,
                   clearTempCalls, performed, answered, owed, throttleVars,
                   lifeVars>>

\* ... and returns once the debugger has been closed
OpenDebuggerReturn ==
    /\ pc = "d170w"
    /\ ~inDebugger
    /\ performed' = Append(performed, "debug")
    /\ pc' = "d171"
    /\ UNCHANGED <<consoleVars, ctlVars, doReset, enterSave,
                   enterSendState, enterReceiveState, enterDebugger,
                   inDebugger, varsList, sendLoc, savePath, saveImage,
                   mutex, cpuEvents, fileNum, fileIdx, sendReq, saveReq,
                   debugState, debugPrior, signalled, sentFileEvents,
                   savedEvents, receiveReadyEvents, openCalls, closeCalls,
                   clearTempCalls, answered, owed, throttleVars, lifeVars>>

\* line 171
DoDebuggerClear ==
    /\ pc = "d171"
    /\ enterDebugger' = FALSE
    /\ performed' = <<>>
    /\ pc' = "loop"
    /\ UNCHANGED <<consoleVars, ctlVars, doReset, enterSave,
                   enterSendState, enterReceiveState, inDebugger, varsList,
                   sendLoc, savePath, saveImage, mutex, cpuEvents, fileNum,
                   fileIdx, sendReq, saveReq, debugState, debugPrior,
                   signalled, sentFileEvents, savedEvents,
                   receiveReadyEvents, openCalls, closeCalls,
                   clearTempCalls, answered, owed, throttleVars, lifeVars>>

\* ------------------------------------------------- controller: commands
LeavingAlways(inDbg, state) == ~state

\* line 119
Leaving(inDbg, state) == inDbg /\ ~state

CanCall == cpc = "idle" /\ requests < MaxRequests

\* lines 105-107
Reset ==
    /\ CanCall
    /\ requests' = requests + 1
    /\ doReset' = TRUE
    /\ owed' = owed \cup {"reset"}
    /\ UNCHANGED <<consoleVars, cpc, enterSave, enterSendState,
                   enterReceiveState, enterDebugger, inDebugger, varsList,
                   sendLoc, savePath, saveImage, mutex, cpuEvents, fileNum,
                   fileIdx, sendReq, saveReq, debugState, debugPrior,
                   signalled, sentFileEvents, savedEvents,
                   receiveReadyEvents, openCalls, closeCalls,
                   clearTempCalls, performed, answered, throttleVars,
                   lifeVars, pc>>

\* line 118
DebugCall(state) ==
    /\ CanCall
    /\ requests' = requests + 1
    /\ debugState' = state
    /\ debugPrior' = enterDebugger
    /\ enterDebugger' = state
    /\ owed' = IF state THEN owed \cup {"debug"} ELSE owed \ {"debug"}
    /\ cpc' = "g119"
    /\ UNCHANGED <<consoleVars, doReset, enterSave, enterSendState,
                   enterReceiveState, inDebugger, varsList, sendLoc,
                   savePath, saveImage, mutex, cpuEvents, fileNum, fileIdx,
                   sendReq, saveReq, signalled, sentFileEvents,
                   savedEvents, receiveReadyEvents, openCalls, closeCalls,
                   clearTempCalls, performed, answered, throttleVars,
                   lifeVars, pc>>

\* lines 119-122
DebugLeave ==
    /\ cpc = "g119"
    /\ IF Leaving(inDebugger, debugState)
       THEN /\ clearTempCalls' = Bump(clearTempCalls)
            /\ closeCalls' = Bump(closeCalls)
            /\ inDebugger' = FALSE
       ELSE UNCHANGED <<clearTempCalls, closeCalls, inDebugger>>
    /\ cpc' = "idle"
    /\ UNCHANGED <<consoleVars, requests, doReset, enterSave,
                   enterSendState, enterReceiveState, enterDebugger,
                   varsList, sendLoc, savePath, saveImage, mutex,
                   cpuEvents, fileNum, fileIdx, sendReq, saveReq,
                   debugState, debugPrior, signalled, sentFileEvents,
                   savedEvents, receiveReadyEvents, openCalls, performed,
                   answered, owed, throttleVars, lifeVars, pc>>

\* line 126
SendCall(list, location) ==
    /\ CanCall
    /\ requests' = requests + 1
    /\ sendReq' = [list |-> list, loc |-> location]
    /\ enterSendState' = TRUE
    /\ owed' = owed \cup {"send"}
    /\ cpc' = "g127"
    /\ UNCHANGED <<consoleVars, doReset, enterSave, enterReceiveState,
                   enterDebugger, inDebugger, varsList, sendLoc, savePath,
                   saveImage, mutex, cpuEvents, fileNum, fileIdx, saveReq,
                   debugState, debugPrior, signalled, sentFileEvents,
                   savedEvents, receiveReadyEvents, openCalls, closeCalls,
                   clearTempCalls, performed, answered, throttleVars,
                   lifeVars, pc>>

\* line 127
SendVars ==
    /\ cpc = "g127"
    /\ varsList' = sendReq.list
    /\ cpc' = "g128"
    /\ UNCHANGED <<consoleVars, requests, doReset, enterSave,
                   enterSendState, enterReceiveState, enterDebugger,
                   inDebugger, sendLoc, savePath, saveImage, mutex,
                   cpuEvents, fileNum, fileIdx, sendReq, saveReq,
                   debugState, debugPrior, signalled, sentFileEvents,
                   savedEvents, receiveReadyEvents, openCalls, closeCalls,
                   clearTempCalls, performed, answered, owed, throttleVars,
                   lifeVars, pc>>

\* line 128
SendLocation ==
    /\ cpc = "g128"
    /\ sendLoc' = sendReq.loc
    /\ cpc' = "idle"
    /\ UNCHANGED <<consoleVars, requests, doReset, enterSave,
                   enterSendState, enterReceiveState, enterDebugger,
                   inDebugger, varsList, savePath, saveImage, mutex,
                   cpuEvents, fileNum, fileIdx, sendReq, saveReq,
                   debugState, debugPrior, signalled, sentFileEvents,
                   savedEvents, receiveReadyEvents, openCalls, closeCalls,
                   clearTempCalls, performed, answered, owed, throttleVars,
                   lifeVars, pc>>

\* lines 131-133
Receive ==
    /\ CanCall
    /\ requests' = requests + 1
    /\ enterReceiveState' = TRUE
    /\ owed' = owed \cup {"receive"}
    /\ signalled' = FALSE
    /\ UNCHANGED <<consoleVars, cpc, doReset, enterSave, enterSendState,
                   enterDebugger, inDebugger, varsList, sendLoc, savePath,
                   saveImage, mutex, cpuEvents, fileNum, fileIdx, sendReq,
                   saveReq, debugState, debugPrior, sentFileEvents,
                   savedEvents, receiveReadyEvents, openCalls, closeCalls,
                   clearTempCalls, performed, answered, throttleVars,
                   lifeVars, pc>>

\* line 136
UnlockCall ==
    /\ CanCall
    /\ requests' = requests + 1
    /\ mutex = "free"
    /\ mutex' = "gui"
    /\ cpc' = "g137"
    /\ UNCHANGED <<consoleVars, doReset, enterSave, enterSendState,
                   enterReceiveState, enterDebugger, inDebugger, varsList,
                   sendLoc, savePath, saveImage, cpuEvents, fileNum,
                   fileIdx, sendReq, saveReq, debugState, debugPrior,
                   signalled, sentFileEvents, savedEvents,
                   receiveReadyEvents, openCalls, closeCalls,
                   clearTempCalls, performed, answered, owed, throttleVars,
                   lifeVars, pc>>

\* line 137: notify_all wakes the thread if it is waiting, and is not
\* remembered if it is not
UnlockNotify ==
    /\ cpc = "g137"
    /\ pc' = IF pc = "d165w" THEN "d165r" ELSE pc
    /\ signalled' = TRUE
    /\ answered' = TRUE
    /\ cpc' = "g138"
    /\ UNCHANGED <<consoleVars, requests, doReset, enterSave,
                   enterSendState, enterReceiveState, enterDebugger,
                   inDebugger, varsList, sendLoc, savePath, saveImage,
                   mutex, cpuEvents, fileNum, fileIdx, sendReq, saveReq,
                   debugState, debugPrior, sentFileEvents, savedEvents,
                   receiveReadyEvents, openCalls, closeCalls,
                   clearTempCalls, performed, owed, throttleVars, lifeVars>>

\* line 138
UnlockRelease ==
    /\ cpc = "g138"
    /\ mutex' = "free"
    /\ cpc' = "idle"
    /\ UNCHANGED <<consoleVars, requests, doReset, enterSave,
                   enterSendState, enterReceiveState, enterDebugger,
                   inDebugger, varsList, sendLoc, savePath, saveImage,
                   cpuEvents, fileNum, fileIdx, sendReq, saveReq,
                   debugState, debugPrior, signalled, sentFileEvents,
                   savedEvents, receiveReadyEvents, openCalls, closeCalls,
                   clearTempCalls, performed, answered, owed, throttleVars,
                   lifeVars, pc>>

\* line 263
SaveCall(image, path) ==
    /\ CanCall
    /\ requests' = requests + 1
    /\ saveReq' = [image |-> image, path |-> path]
    /\ savePath' = path
    /\ cpc' = "g264"
    /\ UNCHANGED <<consoleVars, doReset, enterSave, enterSendState,
                   enterReceiveState, enterDebugger, inDebugger, varsList,
                   sendLoc, saveImage, mutex, cpuEvents, fileNum, fileIdx,
                   sendReq, debugState, debugPrior, signalled,
                   sentFileEvents, savedEvents, receiveReadyEvents,
                   openCalls, closeCalls, clearTempCalls, performed,
                   answered, owed, throttleVars, lifeVars, pc>>

\* line 264
SaveImage ==
    /\ cpc = "g264"
    /\ saveImage' = saveReq.image
    /\ cpc' = "g265"
    /\ UNCHANGED <<consoleVars, requests, doReset, enterSave,
                   enterSendState, enterReceiveState, enterDebugger,
                   inDebugger, varsList, sendLoc, savePath, mutex,
                   cpuEvents, fileNum, fileIdx, sendReq, saveReq,
                   debugState, debugPrior, signalled, sentFileEvents,
                   savedEvents, receiveReadyEvents, openCalls, closeCalls,
                   clearTempCalls, performed, answered, owed, throttleVars,
                   lifeVars, pc>>

\* line 265
SaveFlag ==
    /\ cpc = "g265"
    /\ enterSave' = TRUE
    /\ owed' = owed \cup {"save"}
    /\ cpc' = "idle"
    /\ UNCHANGED <<consoleVars, requests, doReset, enterSendState,
                   enterReceiveState, enterDebugger, inDebugger, varsList,
                   sendLoc, savePath, saveImage, mutex, cpuEvents, fileNum,
                   fileIdx, sendReq, saveReq, debugState, debugPrior,
                   signalled, sentFileEvents, savedEvents,
                   receiveReadyEvents, openCalls, closeCalls,
                   clearTempCalls, performed, answered, throttleVars,
                   lifeVars, pc>>

\* ------------------------------------------------------ throttleTimerWait
\* Time is counted in ticks; the unit of line 203 (100/60 s) is
\* 100 * TicksPerUnit ticks, TicksPerUnit standing for the 1000000 of line 205.
Unit == 100 * TicksPerUnit

Speeds == {0, 50, 100, 200}              \* values given to setEmuSpeed

\* line 205: 1000000 * 100 / speed (integer division)
Interval(s) == (TicksPerUnit * 100) \div s

\* line 213: unit / (cur_time - lastTime), integer division truncating to 0
Measured(elapsed) ==
    IF elapsed > 0 THEN Unit \div elapsed ELSE 0 - (Unit \div (0 - elapsed))

PublishesAlways(off, old, value) == ~off

PublishesWhenOff(off, old, value) == off /\ old # value

\* lines 187-188
Publishes(off, old, value) == ~off /\ old # value

\* lines 186-193
SetActualSpeed(value) ==
    IF Publishes(controlOff, actualSpeed, value)
    THEN /\ actualSpeed' = value
         /\ speedEvents' = Append(speedEvents, value)
    ELSE UNCHANGED <<actualSpeed, speedEvents>>

\* line 198: while (!speed)
ZeroLoop(s) == s = 0

\* line 196: if (!speed)
ThrottleCall ==
    /\ pc = "loop"
    /\ Len(speedEvents) < MaxSpeedEvents
    /\ pc' = IF speed = 0 THEN "t197" ELSE "t205"
    /\ UNCHANGED <<consoleVars, ctlVars, cmdVars, throttleVars, lifeVars>>

\* line 197: setActualSpeed(0)
ThrottleZero ==
    /\ pc = "t197"
    /\ SetActualSpeed(0)
    /\ suppressed' = controlOff
    /\ quiet' = (speed = 0)
    /\ quietFrom' = Len(speedEvents')
    /\ aheadCalls' = 0 /\ aheadBase' = 0
    /\ pc' = "t198"
    /\ UNCHANGED <<consoleVars, ctlVars, cmdVars, speed, throttleOn,
                   lastTime, now, controlOff, interval, cur_time,
                   next_time, lifeVars>>

\* lines 198-201: sleep in slices of 10 ms until speed is not 0, then return
ThrottleZeroLoop ==
    /\ pc = "t198"
    /\ ~ZeroLoop(speed)
    /\ pc' = "loop"
    /\ UNCHANGED <<consoleVars, ctlVars, cmdVars, throttleVars, lifeVars>>

\* lines 203-205; the division is undefined when the controller has set
\* speed to 0 since line 196: it traps or yields some quotient.
ThrottleInterval ==
    /\ pc = "t205"
    /\ IF speed # 0
       THEN interval' = Interval(speed) /\ pc' = "t206"
       ELSE \/ pc' = "crashed" /\ UNCHANGED interval
            \/ \E q \in {0, Unit} : interval' = q /\ pc' = "t206"
    /\ UNCHANGED <<consoleVars, ctlVars, cmdVars, speed, actualSpeed,
                   throttleOn, lastTime, now, controlOff, cur_time,
                   next_time, speedEvents, quiet, quietFrom, suppressed,
                   aheadCalls, aheadBase, lifeVars>>

\* line 206
ThrottleNow ==
    /\ pc = "t206"
    /\ cur_time' = now
    /\ next_time' = lastTime + interval
    /\ pc' = "t207"
    /\ UNCHANGED <<consoleVars, ctlVars, cmdVars, speed, actualSpeed,
                   throttleOn, lastTime, now, controlOff, interval,
                   speedEvents, quiet, quietFrom, suppressed, aheadCalls,
                   aheadBase, lifeVars>>

\* line 207
ThrottleTest ==
    /\ pc = "t207"
    /\ pc' = IF throttleOn /\ cur_time < next_time THEN "t208" ELSE "t212"
    /\ UNCHANGED <<consoleVars, ctlVars, cmdVars, throttleVars, lifeVars>>

AheadLastTimeNow(next, current) == current

\* line 209: lastTime = next_time
AheadLastTime(next, current) == next

\* lines 208-209
ThrottleAhead ==
    /\ pc = "t208"
    /\ SetActualSpeed(speed)
    /\ lastTime' = AheadLastTime(next_time, cur_time)
    /\ IF speed # 0 /\ interval = Interval(speed)
       THEN /\ aheadCalls' = aheadCalls + 1
            /\ aheadBase' = IF aheadCalls = 0 THEN lastTime ELSE aheadBase
       ELSE aheadCalls' = 0 /\ aheadBase' = 0
    /\ pc' = "t210"
    /\ UNCHANGED <<consoleVars, ctlVars, cmdVars, speed, throttleOn, now,
                   controlOff, interval, cur_time, next_time, quiet,
                   quietFrom, suppressed, lifeVars>>

\* line 210: std::this_thread::sleep_until(next_time)
ThrottleSleep ==
    /\ pc = "t210"
    /\ now >= next_time
    /\ pc' = "loop"
    /\ UNCHANGED <<consoleVars, ctlVars, cmdVars, throttleVars, lifeVars>>

\* lines 212-216
ThrottleBehind ==
    /\ pc = "t212"
    /\ IF lastTime # cur_time
       THEN /\ SetActualSpeed(Measured(cur_time - lastTime))
            /\ lastTime' = cur_time
       ELSE UNCHANGED <<actualSpeed, speedEvents, lastTime>>
    /\ aheadCalls' = 0 /\ aheadBase' = 0
    /\ pc' = "loop"
    /\ UNCHANGED <<consoleVars, ctlVars, cmdVars, speed, throttleOn, now,
                   controlOff, interval, cur_time, next_time, quiet,
                   quietFrom, suppressed, lifeVars>>

\* lines 109-111
SetEmuSpeed(value) ==
    /\ CanCall
    /\ requests' = requests + 1
    /\ speed' = value
    /\ quiet' = (quiet /\ value = 0)
    /\ aheadCalls' = 0 /\ aheadBase' = 0
    /\ UNCHANGED <<consoleVars, cpc, cmdVars, actualSpeed, throttleOn,
                   lastTime, now, controlOff, interval, cur_time,
                   next_time, speedEvents, quietFrom, suppressed, lifeVars,
                   pc>>

\* lines 113-115
SetThrottleMode(throttled) ==
    /\ CanCall
    /\ requests' = requests + 1
    /\ throttleOn' = throttled
    /\ UNCHANGED <<consoleVars, cpc, cmdVars, speed, actualSpeed, lastTime,
                   now, controlOff, interval, cur_time, next_time,
                   speedEvents, quiet, quietFrom, suppressed, aheadCalls,
                   aheadBase, lifeVars, pc>>

\* std::chrono::steady_clock advances
Tick ==
    /\ now < MaxTime
    /\ now' = now + 1
    /\ UNCHANGED <<consoleVars, ctlVars, cmdVars, speed, actualSpeed,
                   throttleOn, lastTime, controlOff, interval, cur_time,
                   next_time, speedEvents, quiet, quietFrom, suppressed,
                   aheadCalls, aheadBase, lifeVars, pc>>

\* line 187: control.off changes as the emulated calculator is turned off or on
ControlPower ==
    /\ pc = "loop"
    /\ controlOff' = ~controlOff
    /\ UNCHANGED <<consoleVars, ctlVars, cmdVars, speed, actualSpeed,
                   throttleOn, lastTime, now, interval, cur_time,
                   next_time, speedEvents, quiet, quietFrom, suppressed,
                   aheadCalls, aheadBase, lifeVars, pc>>

\* ------------------------------------------------------ thread lifecycle
EMU_LOAD_FAIL == "EMU_LOAD_FAIL"
EmuLoadStatus == {"EMU_LOAD_OK", EMU_LOAD_FAIL, "EMU_LOAD_NOTROM"}

EscalatesAlways(finished) == TRUE

\* lines 252, 254: if (!this->wait(200)); wait is true iff the thread has finished
Escalates(finished) == ~finished

ProceedsAlways(stopped) == TRUE

\* line 230: if (!stop()) return EMU_LOAD_FAIL
Proceeds(stopped) == stopped

\* QThread::start(): run() begins on a new thread
Start ==
    /\ CanCall
    /\ requests' = requests + 1
    /\ ~running
    /\ running' = TRUE
    /\ exiting' = FALSE
    /\ cpuNext' = 1
    /\ terminateRequested' = FALSE
    /\ performed' = <<>>
    /\ pc' = "loop"
    /\ UNCHANGED <<consoleVars, cpc, doReset, enterSave, enterSendState,
                   enterReceiveState, enterDebugger, inDebugger, varsList,
                   sendLoc, savePath, saveImage, mutex, cpuEvents, fileNum,
                   fileIdx, sendReq, saveReq, debugState, debugPrior,
                   signalled, sentFileEvents, savedEvents,
                   receiveReadyEvents, openCalls, closeCalls,
                   clearTempCalls, answered, owed, throttleVars,
                   lcdCallback, terminateCalls, stopResult, stopCaller,
                   firstWait, secondWait, loadRestore, loadResult,
                   emuLoadStatus, emuLoadRunning, stoppedEvents>>

\* line 221: emu_loop() returns once it sees the exit request
EmuLoopExit ==
    /\ pc = "loop"
    /\ exiting
    /\ pc' = "r222"
    /\ UNCHANGED <<consoleVars, ctlVars, cmdVars, throttleVars, lifeVars>>

\* lines 222-223: emit stopped(), run() returns
RunStopped ==
    /\ pc = "r222"
    /\ stoppedEvents' = stoppedEvents + 1
    /\ running' = FALSE
    /\ terminateRequested' = FALSE
    /\ pc' = "off"
    /\ UNCHANGED <<consoleVars, ctlVars, cmdVars, throttleVars, exiting,
                   cpuNext, lcdCallback, terminateCalls, stopResult,
                   stopCaller, firstWait, secondWait, loadRestore,
                   loadResult, emuLoadStatus, emuLoadRunning>>

\* QThread::terminate() takes effect: the thread is killed where it is
ThreadTerminated ==
    /\ running
    /\ terminateRequested
    /\ running' = FALSE
    /\ terminateRequested' = FALSE
    /\ pc' = "off"
    /\ UNCHANGED <<consoleVars, ctlVars, cmdVars, throttleVars, exiting,
                   cpuNext, lcdCallback, terminateCalls, stopResult,
                   stopCaller, firstWait, secondWait, loadRestore,
                   loadResult, emuLoadStatus, emuLoadRunning,
                   stoppedEvents>>

\* line 242
StopCall ==
    /\ CanCall
    /\ requests' = requests + 1
    /\ stopCaller' = "none"
    /\ stopResult' = <<>>
    /\ firstWait' = "none"
    /\ secondWait' = "none"
    /\ terminateCalls' = 0
    /\ cpc' = "g243"
    /\ UNCHANGED <<consoleVars, cmdVars, throttleVars, running, exiting,
                   cpuNext, lcdCallback, terminateRequested, loadRestore,
                   loadResult, emuLoadStatus, emuLoadRunning,
                   stoppedEvents, pc>>

\* lines 225-230: ret = EMU_LOAD_FAIL; setTerminationEnabled(); stop()
LoadCall(restore) ==
    /\ CanCall
    /\ requests' = requests + 1
    /\ loadRestore' = restore
    /\ loadResult' = "none"
    /\ emuLoadStatus' = "none"
    /\ stopCaller' = "load"
    /\ stopResult' = <<>>
    /\ firstWait' = "none"
    /\ secondWait' = "none"
    /\ terminateCalls' = 0
    /\ cpc' = "g243"
    /\ UNCHANGED <<consoleVars, cmdVars, throttleVars, running, exiting,
                   cpuNext, lcdCallback, terminateRequested,
                   emuLoadRunning, stoppedEvents, pc>>

\* lines 243-245
StopTest ==
    /\ cpc = "g243"
    /\ IF ~running
       THEN stopResult' = <<TRUE>> /\ cpc' = (IF stopCaller = "load" THEN "g230" ELSE "idle")
       ELSE cpc' = "g247" /\ UNCHANGED stopResult
    /\ UNCHANGED <<consoleVars, requests, cmdVars, throttleVars, running,
                   exiting, cpuNext, lcdCallback, terminateRequested,
                   terminateCalls, stopCaller, firstWait, secondWait,
                   loadRestore, loadResult, emuLoadStatus, emuLoadRunning,
                   stoppedEvents, pc>>

\* lines 247-250
StopRequest ==
    /\ cpc = "g247"
    /\ lcdCallback' = FALSE
    /\ exiting' = TRUE
    /\ cpuNext' = 0
    /\ cpc' = "g252"
    /\ UNCHANGED <<consoleVars, requests, cmdVars, throttleVars, running,
                   terminateRequested, terminateCalls, stopResult,
                   stopCaller, firstWait, secondWait, loadRestore,
                   loadResult, emuLoadStatus, emuLoadRunning,
                   stoppedEvents, pc>>

\* line 252: wait(200) ends when the thread has finished or the time is up
StopWait ==
    /\ cpc = "g252"
    /\ firstWait' = IF running THEN "timeout" ELSE "exited"
    /\ IF Escalates(~running)
       THEN cpc' = "g253" /\ UNCHANGED stopResult
       ELSE stopResult' = <<TRUE>> /\ cpc' = (IF stopCaller = "load" THEN "g230" ELSE "idle")
    /\ UNCHANGED <<consoleVars, requests, cmdVars, throttleVars, running,
                   exiting, cpuNext, lcdCallback, terminateRequested,
                   terminateCalls, stopCaller, secondWait, loadRestore,
                   loadResult, emuLoadStatus, emuLoadRunning,
                   stoppedEvents, pc>>

\* line 253
StopTerminate ==
    /\ cpc = "g253"
    /\ terminateCalls' = terminateCalls + 1
    /\ terminateRequested' = running
    /\ cpc' = "g254"
    /\ UNCHANGED <<consoleVars, requests, cmdVars, throttleVars, running,
                   exiting, cpuNext, lcdCallback, stopResult, stopCaller,
                   firstWait, secondWait, loadRestore, loadResult,
                   emuLoadStatus, emuLoadRunning, stoppedEvents, pc>>

\* lines 254-259
StopWaitAgain ==
    /\ cpc = "g254"
    /\ secondWait' = IF running THEN "timeout" ELSE "exited"
    /\ IF Escalates(~running)
       THEN stopResult' = <<FALSE>> /\ cpc' = (IF stopCaller = "load" THEN "g230" ELSE "idle")
       ELSE stopResult' = <<TRUE>> /\ cpc' = (IF stopCaller = "load" THEN "g230" ELSE "idle")
    /\ UNCHANGED <<consoleVars, requests, cmdVars, throttleVars, running,
                   exiting, cpuNext, lcdCallback, terminateRequested,
                   terminateCalls, stopCaller, firstWait, loadRestore,
                   loadResult, emuLoadStatus, emuLoadRunning,
                   stoppedEvents, pc>>

\* lines 230-232
LoadAfterStop ==
    /\ cpc = "g230"
    /\ IF Proceeds(stopResult[1])
       THEN cpc' = "g235" /\ UNCHANGED loadResult
       ELSE loadResult' = EMU_LOAD_FAIL /\ cpc' = "idle"
    /\ UNCHANGED <<consoleVars, requests, cmdVars, throttleVars, running,
                   exiting, cpuNext, lcdCallback, terminateRequested,
                   terminateCalls, stopResult, stopCaller, firstWait,
                   secondWait, loadRestore, emuLoadStatus, emuLoadRunning,
                   stoppedEvents, pc>>

\* lines 234-239: ret = emu_load(...); return ret
LoadEmu ==
    /\ cpc = "g235"
    /\ \E st \in EmuLoadStatus :
          emuLoadStatus' = st /\ loadResult' = st
    /\ emuLoadRunning' = running
    /\ cpc' = "idle"
    /\ UNCHANGED <<consoleVars, requests, cmdVars, throttleVars, running,
                   exiting, cpuNext, lcdCallback, terminateRequested,
                   terminateCalls, stopResult, stopCaller, firstWait,
                   secondWait, loadRestore, stoppedEvents, pc>>

\* ----------------------------------------------------------------- Init
\* lines 55-60 and the member initialisers
Init ==
    /\ pc = "off"
    /\ consoleBuffer = [i \in Index |-> NUL]
    /\ consoleWritePosition = 0
    /\ consoleWriteSemaphore = CONSOLE_BUFFER_SIZE
    /\ consoleReadSemaphore = 0
    /\ msg = <<>>
    /\ dest = CONSOLE_NORM
    /\ available = 0 /\ remaining = 0 /\ space = 0 /\ size = 0
    /\ bufferPosition = 0
    /\ buffer = "none"
    /\ heap = <<>>
    /\ consoleStrEvents = <<>>
    /\ rpc = "idle"
    /\ consoleReadPosition = 0
    /\ readCount = 0
    /\ observed = <<>>
    /\ submitted = 0
    /\ calls = 0
    /\ wrapped = 0
    /\ chunks = <<>>
    /\ cpc = "idle"
    /\ requests = 0
    /\ doReset = FALSE /\ enterSave = FALSE /\ enterSendState = FALSE
    /\ enterReceiveState = FALSE /\ enterDebugger = FALSE
    /\ inDebugger = FALSE
    /\ varsList = <<>>
    /\ sendLoc = 0
    /\ savePath = 0
    /\ saveImage = FALSE
    /\ mutex = "free"
    /\ cpuEvents = FALSE
    /\ fileNum = 0 /\ fileIdx = 0
    /\ sendReq = [list |-> <<>>, loc |-> 0]
    /\ saveReq = [image |-> FALSE, path |-> 0]
    /\ debugState = FALSE
    /\ debugPrior = FALSE
    /\ signalled = FALSE
    /\ sentFileEvents = <<>>
    /\ savedEvents = <<>>
    /\ receiveReadyEvents = 0
    /\ openCalls = 0 /\ closeCalls = 0 /\ clearTempCalls = 0
    /\ performed = <<>>
    /\ answered = FALSE
    /\ owed = {}
    /\ speed = 100 /\ actualSpeed = 100
    /\ throttleOn = TRUE
    /\ now = 0 /\ lastTime = 0
    /\ controlOff = FALSE
    /\ interval = 0 /\ cur_time = 0 /\ next_time = 0
    /\ speedEvents = <<>>
    /\ quiet = FALSE /\ quietFrom = 0 /\ suppressed = FALSE
    /\ aheadCalls = 0 /\ aheadBase = 0
    /\ running = FALSE
    /\ exiting = FALSE /\ cpuNext = 1
    /\ lcdCallback = TRUE
    /\ terminateRequested = FALSE
    /\ terminateCalls = 0
    /\ stopResult = <<>> /\ stopCaller = "none"
    /\ firstWait = "none" /\ secondWait = "none"
    /\ loadRestore = FALSE /\ loadResult = "none"
    /\ emuLoadStatus = "none"
    /\ emuLoadRunning = FALSE
    /\ stoppedEvents = 0

\* ------------------------------------------------------ console channel
NextConsole ==
    \/ Start
    \/ WriteCall
    \/ WriteFormat
    \/ WriteBranch
    \/ WriteLoopTest
    \/ WriteAcquire
    \/ WriteCommitDirect
    \/ WriteCommitChunk
    \/ WriteCommitTail
    \/ ReadAcquire
    \/ ReadRelease

SpecConsole == Init /\ [][NextConsole]_vars

\* The producer runs on once it is inside writeConsoleBuffer, and the
\* consumer keeps draining what is readable.
FairSpecConsole ==
    /\ SpecConsole
    /\ WF_vars(WriteFormat \/ WriteBranch \/ WriteLoopTest \/ WriteAcquire
               \/ WriteCommitDirect \/ WriteCommitChunk \/ WriteCommitTail)
    /\ WF_vars(ReadAcquire)
    /\ WF_vars(ReadRelease)

WritePcs == {"w68", "w70", "w72", "w73", "w81", "w82", "w83", "w92", "w93"}
InFlightPcs == {"w73", "w83", "w93"}
AcquirePcs == {"w72", "w82", "w92"}

\* ------------------------------------------- command flags and the gate
NextCmd ==
    \/ Start
    \/ DoStuffCall \/ DoStuffAdjust
    \/ DoTestReset \/ DoResetEvent \/ DoResetClear
    \/ DoTestSave \/ DoSave \/ DoSaveClear
    \/ DoTestSend \/ SendFilesBegin \/ SendFilesTest \/ SendFilesItem
    \/ SendFilesDone \/ DoSendClear
    \/ DoTestReceive \/ GateLock \/ GateReady \/ GateWait
    \/ GateSpuriousWakeup \/ GateReacquire \/ GateLeave
    \/ DoTestDebugger \/ OpenDebugger \/ OpenDebuggerReturn \/ DoDebuggerClear
    \/ Reset
    \/ (\E state \in BOOLEAN : DebugCall(state))
    \/ DebugLeave
    \/ (\E list \in FileLists, location \in Locations : SendCall(list, location))
    \/ SendVars \/ SendLocation
    \/ Receive
    \/ UnlockCall \/ UnlockNotify \/ UnlockRelease
    \/ (\E image \in BOOLEAN, path \in Paths : SaveCall(image, path))
    \/ SaveImage \/ SaveFlag

SpecCmd == Init /\ [][NextCmd]_vars

\* -------------------------------------------------------------- throttle
NextThrottle ==
    \/ Start
    \/ ThrottleCall \/ ThrottleZero \/ ThrottleZeroLoop
    \/ ThrottleInterval \/ ThrottleNow \/ ThrottleTest
    \/ ThrottleAhead \/ ThrottleSleep \/ ThrottleBehind
    \/ (\E value \in Speeds : SetEmuSpeed(value))
    \/ (\E throttled \in BOOLEAN : SetThrottleMode(throttled))
    \/ Tick
    \/ ControlPower

SpecThrottle == Init /\ [][NextThrottle]_vars

\* ------------------------------------------------------------- lifecycle
NextLife ==
    \/ Start
    \/ EmuLoopExit \/ RunStopped \/ ThreadTerminated
    \/ StopCall \/ StopTest \/ StopRequest \/ StopWait
    \/ StopTerminate \/ StopWaitAgain
    \/ (\E restore \in BOOLEAN : LoadCall(restore))
    \/ LoadAfterStop \/ LoadEmu
    \/ DoStuffCall \/ DoStuffAdjust
    \/ DoTestReset \/ DoResetEvent \/ DoResetClear
    \/ DoTestSave \/ DoTestSend \/ DoTestReceive \/ DoTestDebugger
    \/ Reset

SpecLife == Init /\ [][NextLife]_vars

\* C1: the bytes the consumer has read are exactly the first bytes
\* submitted, in order (byte i of the stream has the value i), and once the
\* producer has returned and the channel is drained every submitted byte
\* has been read.
ConsoleOrderPreserved ==
    /\ Len(observed) <= submitted
    /\ \A i \in 1 .. Len(observed) : observed[i] = i
    /\ (pc = "loop" /\ rpc = "idle" /\ consoleReadSemaphore = 0)
          => Len(observed) = submitted

\* C1 witness: a message was split at the end of the ring and all of it
\* has reached the consumer.
ConsoleWrapDelivered ==
    /\ wrapped > 0
    /\ pc = "loop" /\ rpc = "idle"
    /\ Len(consoleStrEvents) >= 2
    /\ Len(observed) = submitted

\* C2: with no chunk between its acquire and its release and no read in
\* flight, the two semaphores add up to the capacity; before the first
\* call they hold CONSOLE_BUFFER_SIZE and 0.
PermitsConserved ==
    /\ (pc \notin InFlightPcs /\ rpc = "idle")
          => consoleWriteSemaphore + consoleReadSemaphore = CONSOLE_BUFFER_SIZE
    /\ calls = 0
          => consoleWriteSemaphore = CONSOLE_BUFFER_SIZE /\ consoleReadSemaphore = 0

\* C2 witness: after completed writes and reads both semaphores hold permits.
PermitsSplit ==
    /\ pc = "loop" /\ rpc = "idle"
    /\ consoleReadSemaphore > 0 /\ consoleWriteSemaphore > 0
    /\ observed # <<>>

\* C11: a call whose formatted size is zero or negative never reaches an
\* acquire and none of its steps changes a semaphore, the write position
\* or emits consoleStr, whatever the state of the buffer.
ZeroSizeNoOp ==
    /\ []((pc \in WritePcs /\ FormattedSize(msg) <= 0)
             => pc \in {"w68", "w70", "w81"})
    /\ [][(pc' # pc /\ FormattedSize(msg') <= 0)
             => /\ consoleWriteSemaphore' = consoleWriteSemaphore
                /\ consoleReadSemaphore' = consoleReadSemaphore
                /\ consoleWritePosition' = consoleWritePosition
                /\ consoleStrEvents' = <<>>]_vars

\* C11 witness: a zero-size call has returned that found the buffer full.
ZeroSizeOnFullBuffer ==
    /\ pc = "loop" /\ calls > 1
    /\ FormattedSize(msg) = 0
    /\ available = 0 /\ consoleWriteSemaphore = 0
    /\ consoleReadSemaphore = CONSOLE_BUFFER_SIZE

\* C12: every actualSpeedChanged event carries a value different from the
\* one published before it (initially the 100 of the constructor), and the
\* latest event is the stored actualSpeed, whichever branches emitted them.
SpeedEventsDiffer ==
    /\ \A k \in 1 .. Len(speedEvents) - 1 : speedEvents[k] # speedEvents[k + 1]
    /\ speedEvents # <<>>
          => /\ speedEvents[1] # 100
             /\ speedEvents[Len(speedEvents)] = actualSpeed
    /\ speedEvents = <<>> => actualSpeed = 100

\* C12 witness: three events, from the speed-0 path and from the timed paths.
SpeedEventsMixed ==
    /\ Len(speedEvents) = 3
    /\ speedEvents[1] = 0
    /\ speedEvents[2] # speed
    /\ pc = "t210"

\* C13: within one checkpoint the actions are performed in the order reset,
\* save, send, receive, enter-debugger; the computation thread clears a
\* flag only right after that flag's action was performed (reset event
\* requested, saved emitted, batch terminated by the empty name, cv.wait
\* returned, open_debugger returned); an action is entered only from its
\* test with the flag set, and its effects appear only inside it.
CheckpointInOrder ==
    /\ [](\A i, j \in 1 .. Len(performed) :
            i < j => \E a, b \in 1 .. Len(CheckpointOrder) :
                        /\ a < b
                        /\ performed[i] = CheckpointOrder[a]
                        /\ performed[j] = CheckpointOrder[b])
    /\ [][pc' # pc =>
            LET done == IF performed = <<>> THEN "none"
                        ELSE performed[Len(performed)]
            IN /\ (doReset /\ ~doReset') => (done = "reset" /\ cpuEvents)
               /\ (enterSave /\ ~enterSave')
                     => (done = "save" /\ savedEvents # <<>>)
               /\ (enterSendState /\ ~enterSendState')
                     => /\ done = "send"
                        /\ Len(sentFileEvents) = fileNum + 1
                        /\ sentFileEvents[fileNum + 1].name = EmptyName
               /\ (enterReceiveState /\ ~enterReceiveState')
                     => (done = "receive" /\ receiveReadyEvents > 0)
               /\ (enterDebugger /\ ~enterDebugger')
                     => (done = "debug" /\ openCalls > 0)]_vars
    /\ [][pc' # pc =>
            /\ pc' = "d147" => (pc = "d146" /\ doReset)
            /\ pc' = "d152" => (pc = "d151" /\ enterSave)
            /\ pc' = "d176" => (pc = "d157" /\ enterSendState)
            /\ pc' = "d163" => (pc = "d162" /\ enterReceiveState)
            /\ pc' = "d170" => (pc = "d169" /\ enterDebugger)
            /\ cpuEvents' # cpuEvents => pc = "d147"
            /\ savedEvents' # savedEvents => pc = "d152"
            /\ sentFileEvents' # sentFileEvents
                  => pc \in {"d176", "d179", "d183"}
            /\ receiveReadyEvents' # receiveReadyEvents => pc = "d164"
            /\ openCalls' # openCalls => pc = "d170"]_vars

\* C13 witness: a checkpoint that found reset, save and send pending has
\* performed the three in that order and cleared their flags.
CheckpointThreeDone ==
    /\ pc = "d162"
    /\ performed = <<"reset", "save", "send">>
    /\ ~doReset /\ ~enterSave /\ ~enterSendState

RECURSIVE SumAcquired(_)
SumAcquired(cs) ==
    IF cs = <<>> THEN 0 ELSE cs[1].acq + SumAcquired(Tail(cs))

\* C15: every chunk acquires its length in write permits, ends at or before
\* the end of the ring and releases that many read permits with one
\* consoleStr(dest); a message that fits the first attempt is one chunk of
\* its size, one that does not is cut at each wraparound, and the chunk
\* lengths of a returned call add up to the message size.
ChunkedCommit ==
    /\ \A k \in 1 .. Len(chunks) :
          /\ chunks[k].acq >= 1
          /\ chunks[k].at + chunks[k].acq <= CONSOLE_BUFFER_SIZE
          /\ chunks[k].rel = IF k = Len(chunks) /\ pc \in InFlightPcs
                             THEN 0 ELSE chunks[k].acq
          /\ k < Len(chunks)
                => /\ chunks[k].at + chunks[k].acq = CONSOLE_BUFFER_SIZE
                   /\ chunks[k + 1].at = 0
    /\ Len(consoleStrEvents)
          = Len(chunks) - (IF pc \in InFlightPcs THEN 1 ELSE 0)
    /\ \A k \in 1 .. Len(consoleStrEvents) : consoleStrEvents[k] = dest
    /\ (pc = "loop" /\ calls > 0)
          => /\ SumAcquired(chunks) = (IF msg = FmtError THEN 0 ELSE Len(msg))
             /\ (0 < FormattedSize(msg) /\ FormattedSize(msg) < space)
                   => (Len(chunks) = 1 /\ chunks[1].acq = FormattedSize(msg))

\* C15 witness: a call has returned after committing a message in two
\* chunks, the second one at the start of the ring.
ChunkedTwice ==
    /\ pc = "loop"
    /\ Len(chunks) = 2 /\ chunks[2].at = 0
    /\ Len(consoleStrEvents) = 2

\* Write permits the producer holds between an acquire and its release.
Held == IF pc \in InFlightPcs THEN chunks[Len(chunks)].acq ELSE 0

\* Bytes committed and not yet given back by the reader: the ones before
\* consoleWritePosition that no free or held write permit stands for.
Unread ==
    {(consoleWritePosition + CONSOLE_BUFFER_SIZE - j) % CONSOLE_BUFFER_SIZE :
        j \in 1 .. CONSOLE_BUFFER_SIZE - consoleWriteSemaphore - Held}

\* bytes at .. at + n - 1 are inside the ring and hold no unread data
FreeRange(at, n) ==
    \A i \in at .. at + n - 1 : i \in Index /\ i \notin Unread

\* C16: consoleWritePosition stays inside the ring; the optimistic
\* vsnprintf, the in-ring scratch copy and every memcpy/memmove chunk store
\* only into bytes holding no unread data; the part of an in-ring scratch
\* still to be copied is intact, and memcpy never copies onto its source.
UnreadNeverStored ==
    /\ [](consoleWritePosition \in Index)
    /\ [](pc = "w68" => FreeRange(consoleWritePosition, space))
    /\ []((pc = "w70" /\ size >= space /\ UseRing(size, available, remaining))
             => FreeRange(0, size + 1))
    /\ [](pc = "w83" => FreeRange(consoleWritePosition, remaining))
    /\ [](pc = "w93" => FreeRange(consoleWritePosition, size))
    /\ []((buffer = "ring" /\ pc \in {"w81", "w82", "w83", "w92", "w93"})
             => /\ \A j \in 0 .. size - 1 :
                      /\ bufferPosition + j \in Index
                      /\ consoleBuffer[bufferPosition + j]
                            = msg[Len(msg) - size + j + 1]
                /\ pc = "w83"
                      => bufferPosition + remaining <= consoleWritePosition)
    /\ [][\A i \in Index :
             consoleBuffer'[i] # consoleBuffer[i] => i \notin Unread]_vars

\* C16 witness: the tail of a message is about to be moved from the in-ring
\* scratch to the start of the ring while unread data is in the ring.
ScratchInRingTail ==
    /\ buffer = "ring" /\ pc = "w93"
    /\ bufferPosition > 0
    /\ Unread # {}

\* C17: an unlock() that notifies after the receiveReady of the current
\* cycle finds the computation thread inside cv.wait and wakes it: while
\* the controller holds the mutex the thread is not between its lock and
\* its wait, and once such a notification is made the thread is neither
\* about to wait nor waiting.
UnlockAfterReadyWakes ==
    /\ [](cpc \in {"g137", "g138"} => pc \notin {"d164", "d165", "d166"})
    /\ [](pc \in {"d165", "d165w"} => ~answered)
    /\ [][(cpc = "g137" /\ cpc' = "g138" /\ pc = "d165w")
             => pc' = "d165r"]_vars

\* C17 witness: the thread has left the gate and cleared the flag after an
\* unlock() that followed the receiveReady of that cycle.
GateAnswered ==
    /\ pc = "d169" /\ cpc = "idle"
    /\ receiveReadyEvents = 1 /\ answered
    /\ ~enterReceiveState
    /\ performed = <<"receive">>

\* The flag a request of the given kind sets.
Flag(kind) ==
    CASE kind = "reset" -> doReset
      [] kind = "save" -> enterSave
      [] kind = "send" -> enterSendState
      [] kind = "receive" -> enterReceiveState
      [] kind = "debug" -> enterDebugger

\* C18: a request that no test of its flag has found set yet still has its
\* flag set, so that the next checkpoint performs its action; a flag
\* cleared under such a request is a request lost.
NoRequestLost ==
    \A kind \in owed : Flag(kind)

\* C19: the division of line 205 is never executed with speed 0 and the
\* ahead-of-schedule branch never passes speed 0 to setActualSpeed,
\* whenever setEmuSpeed runs between the reads of speed.
SpeedNeverZeroPastTest ==
    [][/\ (pc = "t205" /\ pc' # pc) => speed # 0
       /\ (pc = "t208" /\ pc' # pc) => speed # 0]_vars

\* --------------------------------------- stop() against a blocked thread
\* The lifecycle together with the places of this file where the
\* computation thread waits for the controller: the speed-0 loop and the
\* receive gate.
NextStop ==
    \/ Start
    \/ EmuLoopExit \/ RunStopped \/ ThreadTerminated
    \/ StopCall \/ StopTest \/ StopRequest \/ StopWait
    \/ StopTerminate \/ StopWaitAgain
    \/ ThrottleCall \/ ThrottleZero \/ ThrottleZeroLoop
    \/ ThrottleInterval \/ ThrottleNow \/ ThrottleTest
    \/ ThrottleAhead \/ ThrottleSleep \/ ThrottleBehind
    \/ (\E value \in Speeds : SetEmuSpeed(value))
    \/ Tick
    \/ DoStuffCall \/ DoStuffAdjust
    \/ DoTestReset \/ DoTestSave \/ DoTestSend \/ DoTestReceive
    \/ GateLock \/ GateReady \/ GateWait
    \/ GateSpuriousWakeup \/ GateReacquire \/ GateLeave
    \/ DoTestDebugger
    \/ Receive
    \/ UnlockCall \/ UnlockNotify \/ UnlockRelease

SpecStop == Init /\ [][NextStop]_vars

\* The computation thread is at a wait only the controller can end.
BlockedOnController ==
    \/ pc = "t198" /\ ZeroLoop(speed)
    \/ pc = "d165w"

\* C20: when stop() sets the exit request (lines 247-250) the computation
\* thread is not at a wait that only the controller can end, so that it
\* reaches the end of run() without the controller, which is about to
\* block in wait(200), and without terminate().
StopRequestFindsUnblocked ==
    [][(cpc = "g247" /\ cpc' = "g252" /\ running) => ~BlockedOnController]_vars

\* C9: every call returns when the consumer keeps draining, and a
\* producer waiting for permits is never stuck with the consumer idle and
\* nothing to read (the chunk it waits for always fits the ring).
WriteEventuallyReturns ==
    /\ [](pc \in AcquirePcs =>
            /\ Wanted <= CONSOLE_BUFFER_SIZE
            /\ (consoleWriteSemaphore < Wanted
                   => consoleReadSemaphore > 0 \/ rpc = "read"))
    /\ (pc \in WritePcs ~> pc = "loop")

\* C9 witness: a message longer than the ring has been written in full.
OversizeWritten ==
    /\ pc = "loop"
    /\ msg # FmtError /\ Len(msg) > CONSOLE_BUFFER_SIZE
    /\ Len(consoleStrEvents) >= 2

\* C3: once unlock() has run for the pending receive() request, the
\* computation thread is not left blocked in cv.wait: the notification is
\* not lost when it is raised before the thread waits.
GateSignalNotLost ==
    ~(pc = "d165w" /\ signalled /\ cpc = "idle")

\* C4: whenever a pending flag becomes true, every field of its payload
\* already holds the values of the request that sets it.
PayloadBeforeFlag ==
    [][/\ (~enterSendState /\ enterSendState')
            => (varsList' = sendReq'.list /\ sendLoc' = sendReq'.loc)
       /\ (~enterSave /\ enterSave')
            => (savePath' = saveReq'.path /\ saveImage' = saveReq'.image)]_vars

\* C6: when sendFiles has returned, the sentFile events of the batch are
\* one per item given to send(), in that order, and then one with an empty
\* name and LINK_GOOD.
SendBatchEvents ==
    pc = "d159" =>
        /\ Len(sentFileEvents) = Len(sendReq.list) + 1
        /\ \A k \in 1 .. Len(sendReq.list) :
              k <= Len(sentFileEvents) => sentFileEvents[k].name = sendReq.list[k]
        /\ sentFileEvents[Len(sentFileEvents)] =
              [name |-> EmptyName, status |-> LINK_GOOD]

CommandFlags ==
    <<doReset, enterSave, enterSendState, enterReceiveState, enterDebugger>>

DebuggerCalls == <<clearTempCalls, closeCalls, openCalls>>

\* C10 as claimed: debug(false) outside the debugger calls neither
\* debug_clear_temp_break nor close_debugger and changes no command flag.
DebugLeaveNoOp ==
    [][/\ (cpc = "idle" /\ cpc' = "g119" /\ ~debugState' /\ ~inDebugger)
            => (CommandFlags' = CommandFlags /\ DebuggerCalls' = DebuggerCalls)
       /\ (cpc = "g119" /\ cpc' = "idle" /\ ~debugState /\ ~inDebugger)
            => (CommandFlags' = CommandFlags /\ DebuggerCalls' = DebuggerCalls)]_vars

\* C10: debug(false) outside the debugger calls neither
\* debug_clear_temp_break nor close_debugger and leaves inDebugger and every
\* command flag as they were, except enterDebugger, which it sets to false.
DebugLeaveClearsRequest ==
    [][/\ (cpc = "idle" /\ cpc' = "g119" /\ ~debugState' /\ ~inDebugger)
            => /\ ~enterDebugger'
               /\ <<doReset, enterSave, enterSendState, enterReceiveState>>'
                    = <<doReset, enterSave, enterSendState, enterReceiveState>>
               /\ DebuggerCalls' = DebuggerCalls
               /\ ~inDebugger'
       /\ (cpc = "g119" /\ cpc' = "idle" /\ ~debugState /\ ~inDebugger)
            => /\ CommandFlags' = CommandFlags
               /\ DebuggerCalls' = DebuggerCalls
               /\ ~inDebugger']_vars

\* C10 witness: debug(false) has returned after it found an enter-debugger
\* request pending and the debugger closed.
DebugRequestCancelled ==
    /\ cpc = "idle"
    /\ ~debugState /\ debugPrior
    /\ ~enterDebugger /\ ~inDebugger
    /\ openCalls = 0 /\ closeCalls = 0

StopReturned == stopResult # <<>>

\* C5: while stop() waits the exit request is set; a thread that has exited
\* by the end of the first wait gives true with no terminate(); otherwise
\* terminate() is called once, before the second wait, and stop() gives
\* false exactly if the thread is still running at the end of that wait.
StopContract ==
    /\ cpc \in {"g252", "g253", "g254"} => (exiting /\ cpuNext = 0)
    /\ firstWait = "none" => (terminateCalls = 0 /\ secondWait = "none")
    /\ (firstWait = "none" /\ StopReturned) => stopResult = <<TRUE>>
    /\ firstWait = "exited" =>
          (terminateCalls = 0 /\ secondWait = "none" /\ stopResult = <<TRUE>>)
    /\ firstWait = "timeout" =>
          \/ cpc = "g253" /\ terminateCalls = 0 /\ ~StopReturned
          \/ cpc = "g254" /\ terminateCalls = 1 /\ secondWait = "none" /\ ~StopReturned
          \/ /\ StopReturned /\ terminateCalls = 1
             /\ secondWait \in {"exited", "timeout"}
             /\ (stopResult = <<FALSE>>) <=> (secondWait = "timeout")

\* C5 witness: terminate() was called and the thread is still running
\* after the second wait.
StopFailed ==
    /\ StopReturned /\ stopResult = <<FALSE>>
    /\ firstWait = "timeout" /\ secondWait = "timeout"
    /\ terminateCalls = 1

\* C8: emu_load is never invoked on a running thread; a load() whose stop()
\* failed returns EMU_LOAD_FAIL without emu_load, any other load() returns
\* what emu_load returned.
LoadContract ==
    /\ ~emuLoadRunning
    /\ cpc = "g235" => ~running
    /\ (stopCaller = "load" /\ loadResult # "none") =>
          IF stopResult = <<TRUE>>
          THEN emuLoadStatus \in EmuLoadStatus /\ loadResult = emuLoadStatus
          ELSE emuLoadStatus = "none" /\ loadResult = EMU_LOAD_FAIL

\* C8 witness: load() stopped a running thread and returned emu_load's status.
LoadAfterRunning ==
    /\ stopCaller = "load" /\ cpc = "idle"
    /\ firstWait # "none"
    /\ loadResult = "EMU_LOAD_NOTROM"

NoEventSinceQuiet ==
    quiet => \A k \in quietFrom + 1 .. Len(speedEvents) : speedEvents[k] = 0

\* C7 as claimed: once throttleTimerWait has found speed 0 the published
\* speed is 0, and no other value is published while speed stays 0.
ZeroSpeedReported ==
    /\ pc = "t198" => actualSpeed = 0
    /\ NoEventSinceQuiet

\* C7: once throttleTimerWait has found speed 0 the published speed is 0
\* unless control.off was set at that moment, and no non-zero value is
\* published while speed stays 0.
ZeroSpeedReportedUnlessOff ==
    /\ (pc = "t198" /\ ~suppressed) => actualSpeed = 0
    /\ NoEventSinceQuiet

\* C7 witness: the thread sits in the speed-0 loop after publishing 0.
ZeroSpeedPublished ==
    /\ pc = "t198" /\ speed = 0 /\ quiet
    /\ speedEvents # <<>>
    /\ speedEvents[Len(speedEvents)] = 0
    /\ actualSpeed = 0

====
